---- MODULE Spec2Model ----
(***************************************************************************)
(* A model of babelcast's per-connection relay (conn.go): the Conn object, *)
(* its connect commands, the publisher and subscriber pipelines, the event *)
(* relay and Close, over a topic-addressed publish/subscribe bus.          *)
(*                                                                         *)
(* Strings and byte slices are sequences of bytes (0..255).  A uint32 is a *)
(* record [hi, lo] of its two 16-bit halves, so that the whole unsigned    *)
(* range is representable and the little-endian packing is a conversion.   *)
(***************************************************************************)
EXTENDS Integers, Sequences, FiniteSets, TLC

(***************************************************************************)
(* Bytes, uint32, hashing and framing                                      *)
(***************************************************************************)
U32(h, l) == [hi |-> h, lo |-> l]

RECURSIVE XorBits(_, _, _)
XorBits(a, b, n) ==
    IF n = 0 THEN 0
    ELSE (((a % 2) + (b % 2)) % 2) + 2 * XorBits(a \div 2, b \div 2, n - 1)

\* fnv.New32a(): the 32-bit FNV offset basis 0x811C9DC5
FnvOffset == U32(33052, 40389)

\* one round of FNV-1a: h = (h XOR b) * 0x01000193 mod 2^32
FnvStep(h, b) ==
    LET lo1 == (h.lo \div 256) * 256 + XorBits(h.lo % 256, b, 8)
        m   == lo1 * 403
    IN  U32(((h.hi * 403) + (m \div 65536) + ((lo1 % 256) * 256)) % 65536, m % 65536)

RECURSIVE FnvFold(_, _)
FnvFold(h, s) == IF s = <<>> THEN h ELSE FnvFold(FnvStep(h, Head(s)), Tail(s))

\* hash(s): FNV-1a over the bytes of s
hash(s) == FnvFold(FnvOffset, s)

\* binary.LittleEndian.PutUint32 / binary.Write(buf, LittleEndian, uint32)
PutUint32(u) == << u.lo % 256, u.lo \div 256, u.hi % 256, u.hi \div 256 >>

\* binary.LittleEndian.Uint32 on a 4-byte slice
Uint32(b) == U32(b[3] + (256 * b[4]), b[1] + (256 * b[2]))

(***************************************************************************)
(* Bounds of the model                                                     *)
(***************************************************************************)
MaxSubSocks  == 1   \* sub.NewSocket() calls in a run of one session
MaxBusSocks  == 2   \* sub.NewSocket() calls in a run of two sessions
MaxEvents    == 3   \* connect commands, samples, failures of external calls
                    \* and ICE callbacks in a run of one session
MaxBusEvents == 4   \* connect commands and samples in a run of two sessions
MaxConnectEvents == 2 \* commands and failures in a run of the signaling loop
MaxCodecEvents == 3 \* connect commands and samples in a run of the codec
MaxTail      == 5   \* bytes after the topic in a message taken off the bus

Sessions == {1, 2}

\* channel names: "a", "b"; the configured publisher secret: "p"
NameA == << 97 >>
NameB == << 98 >>
Secret == << 112 >>
RunNames == { NameA, NameB }
CodecNames == { NameA, << 97, 32, 49 >> }

\* names the signaling peer may send: "", "a", "z", "A", "Z", "0", "9",
\* " ", "a 1", "a#1", "#", and the neighbours of the ranges: "/", ":", "@",
\* "[", "`", "{", and a byte above 127
WideNames == { << >>, NameA, << 122 >>, << 65 >>, << 90 >>, << 48 >>, << 57 >>,
               << 32 >>, << 97, 32, 49 >>, << 97, 35, 49 >>, << 35 >>,
               << 47 >>, << 58 >>, << 64 >>, << 91 >>, << 96 >>, << 123 >>, << 195 >> }
WidePasswords == { << >>, Secret, << 113 >>, << 112, 112 >> }

\* what the reassembler yields: media.Sample{Samples, Data}
Smp(n, d) == [Samples |-> n, Data |-> d]
OneSample == { Smp(U32(0, 960), << 7 >>) }
RunSamples == OneSample \cup { Smp(U32(65535, 65535), << 8, 9 >>) }
WideSamples == { Smp(U32(h, l), d) : h \in { 0, 65535 }, l \in { 0, 256, 65535 },
                                      d \in { << >>, << 0 >>, << 255, 1 >> } }

(***************************************************************************)
(* State                                                                   *)
(***************************************************************************)
VARIABLES
    rtcPeer,       \* Conn.rtcPeer: TRUE when non-nil
    spSock,        \* Conn.spSock: nilSock, pubSocket or the id of a sub socket
    channelName,   \* Conn.channelName
    spTopic,       \* Conn.spTopic: <<>> is nil
    isPublisher,   \* Conn.isPublisher
    hasClosed,     \* Conn.hasClosed
    mutex,         \* the task holding Conn's sync.Mutex
    pc,            \* where each task of a session stands
    cmd,           \* the command the signaling loop handed over last
    ret,           \* what that command returned
    sample,        \* rtcTrackHandler goroutine: the sample popped
    subOn,         \* subscriber goroutine: the socket its Recv is blocked on
    subData,       \* subscriber goroutine: the message Recv returned
    ctxDone,       \* the session context is cancelled
    publisherPassword, \* the configured publisher secret
    closeLog,      \* the resources a session's Close calls closed, in order
    panicked,      \* a goroutine panicked
    pubClosed,     \* pubSocket was closed
    socks,         \* the sub sockets: state, owner, subscriptions, receive queue
    nsocks,        \* sub sockets created
    regCalls,      \* calls made to the registry
    trackOut,      \* samples written to a session's outbound track
    published,     \* frames a session's Send calls put on the bus
    expected,      \* samples published on a session's channel since it subscribed
    budget         \* events the run may still take

connVars == << rtcPeer, spSock, channelName, spTopic, isPublisher, hasClosed, mutex >>
taskVars == << pc, cmd, ret, sample, subOn, subData, ctxDone >>
envVars  == << publisherPassword, closeLog, panicked, pubClosed, socks,
               nsocks, regCalls, trackOut, published, expected >>
vars == << connVars, taskVars, envVars, budget >>

\* mangos.Socket handles
nilSock   == 0
pubSocket == 0 - 1
SockIds   == 1 .. (IF MaxSubSocks > MaxBusSocks THEN MaxSubSocks ELSE MaxBusSocks)

\* the tasks of a session
NoTask == << "none", 0 >>
Sig    == << "sig", 0 >>
Track  == << "track", 0 >>
Log    == << "log", 0 >>
Ice    == << "ice", 0 >>
Sub(k) == << "sub", k >>
Tasks  == { Sig, Track, Log, Ice } \cup { Sub(k) : k \in SockIds }

NoCmd == [kind |-> "none", channel |-> << >>, password |-> << >>]
NoSample == Smp(U32(0, 0), << >>)
NoMsg == [bytes |-> << >>, chan |-> << >>, smp |-> NoSample]
FreeSock == [st |-> "free", owner |-> 0, filter |-> {}, q |-> << >>]

\* NewConn, once per accepted signaling connection; LogHandler is running
InitConn ==
    /\ rtcPeer = [s \in Sessions |-> FALSE]
    /\ spSock = [s \in Sessions |-> nilSock]
    /\ channelName = [s \in Sessions |-> << >>]
    /\ spTopic = [s \in Sessions |-> << >>]
    /\ isPublisher = [s \in Sessions |-> FALSE]
    /\ hasClosed = [s \in Sessions |-> FALSE]
    /\ mutex = [s \in Sessions |-> NoTask]
    /\ pc = [s \in Sessions |-> [t \in Tasks |->
                IF t = Sig THEN "idle"
                ELSE IF t = Log THEN "select"
                ELSE IF t = Ice THEN "idle" ELSE "none"]]
    /\ cmd = [s \in Sessions |-> NoCmd]
    /\ ret = [s \in Sessions |-> "none"]
    /\ sample = [s \in Sessions |-> NoSample]
    /\ subOn = [k \in SockIds |-> nilSock]
    /\ subData = [k \in SockIds |-> NoMsg]
    /\ ctxDone = [s \in Sessions |-> FALSE]
    /\ closeLog = [s \in Sessions |-> << >>]
    /\ panicked = FALSE
    /\ pubClosed = FALSE
    /\ socks = [k \in SockIds |-> FreeSock]
    /\ nsocks = 0
    /\ regCalls = {}
    /\ trackOut = [s \in Sessions |-> << >>]
    /\ published = [s \in Sessions |-> << >>]
    /\ expected = [s \in Sessions |-> << >>]

Init ==
    /\ InitConn
    /\ publisherPassword = Secret
    /\ budget = MaxEvents

Goto(s, t, l) == pc' = [pc EXCEPT ![s][t] = l]
At(s, t, l) == pc[s][t] = l

\* task t of session s is about to run from l; a panic ends the process
On(s, t, l) == ~panicked /\ pc[s][t] = l

\* an event is taken while the budget lasts
Spend == budget > 0 /\ budget' = budget - 1
Keep  == UNCHANGED budget

\* sync.Mutex: Lock() returns only while no task holds the mutex
CanLock(s) == mutex[s] = NoTask

(***************************************************************************)
(* Commands the signaling loop hands to the session                        *)
(***************************************************************************)
Return(s, r) == /\ ret' = [ret EXCEPT ![s] = r]
                /\ Goto(s, Sig, "idle")

\* setupSession: NewPC, CreateAnswer, SetLocalDescription; o is the call
\* that fails, if one does
SetupSession(s, o) ==
    /\ On(s, Sig, "idle")
    /\ ~rtcPeer[s]
    /\ cmd' = [cmd EXCEPT ![s] = [kind |-> "setup", channel |-> << >>, password |-> << >>]]
    /\ rtcPeer' = [rtcPeer EXCEPT ![s] = (o /= "newpc_err")]
    /\ IF o = "ok"
       THEN /\ Keep
            /\ ret' = [ret EXCEPT ![s] = "pending"]
            /\ Goto(s, Sig, "setup_write")
       ELSE /\ Spend
            \* a failed SetLocalDescription returns nil
            /\ Return(s, IF o = "local_err" THEN "ok" ELSE "ErrSetup")
    /\ UNCHANGED << spSock, channelName, spTopic, isPublisher, hasClosed, mutex,
                    sample, subOn, subData, ctxDone, envVars >>

Closed(s, r) == \E i \in 1 .. Len(closeLog[s]) : closeLog[s][i] = r

\* writeMsg(sd_answer) at the end of setupSession; WriteMessage fails once
\* the connection is closed
SetupWrite(s) ==
    /\ On(s, Sig, "setup_write")
    /\ CanLock(s)
    /\ Return(s, IF Closed(s, "ws") THEN "ErrWrite" ELSE "ok")
    /\ UNCHANGED << connVars, cmd, sample, subOn, subData, ctxDone, envVars, budget >>

\* a session that is taken to have its peer connection
PeerMissingNever(s) == FALSE

\* c.rtcPeer == nil
PeerMissing(s) == ~rtcPeer[s]

\* the class without the space
RegexpClassNoSpace(b) == \/ b \in 97 .. 122
                         \/ b \in 65 .. 90
                         \/ b \in 48 .. 57

\* the characters "[^a-zA-Z0-9 ]" does not match
RegexpClass(b) == \/ b \in 97 .. 122
                  \/ b \in 65 .. 90
                  \/ b \in 48 .. 57
                  \/ b = 32

\* channelRegexp.MatchString(name): a run of one or more characters outside
\* the class occurs in name
channelRegexpMatch(name) == \E i \in 1 .. Len(name) : ~RegexpClass(name[i])

\* a check that lets every password through
PasswordRejectedNever(pw) == FALSE

\* publisherPassword != "" && cmd.Password != publisherPassword
PasswordRejected(pw) == publisherPassword /= << >> /\ pw /= publisherPassword

\* the checks connectPublisher makes before it touches the session
PublisherCheck(s, name, pw) ==
    IF PeerMissing(s) THEN "ErrNoSession"
    ELSE IF name = << >> THEN "ErrEmpty"
    ELSE IF channelRegexpMatch(name) THEN "ErrChars"
    ELSE IF PasswordRejected(pw) THEN "ErrPassword"
    ELSE "pass"

\* the checks connectSubscriber makes before it touches the session
SubscriberCheck(s, name) ==
    IF PeerMissing(s) THEN "ErrNoSession"
    ELSE IF name = << >> THEN "ErrEmpty"
    ELSE IF channelRegexpMatch(name) THEN "ErrChars"
    ELSE "pass"

\* connectPublisher, up to the first Lock
ConnectPublisher(s, name, pw) ==
    /\ On(s, Sig, "idle")
    /\ Spend
    /\ cmd' = [cmd EXCEPT ![s] = [kind |-> "publisher", channel |-> name, password |-> pw]]
    /\ IF PublisherCheck(s, name, pw) = "pass"
       THEN /\ ret' = [ret EXCEPT ![s] = "pending"]
            /\ Goto(s, Sig, "pub_name")
       ELSE Return(s, PublisherCheck(s, name, pw))
    /\ UNCHANGED << connVars, sample, subOn, subData, ctxDone, envVars >>

\* c.Lock(); c.channelName = cmd.Channel; c.Unlock()
PubName(s) ==
    /\ On(s, Sig, "pub_name")
    /\ CanLock(s)
    /\ channelName' = [channelName EXCEPT ![s] = cmd[s].channel]
    /\ Goto(s, Sig, "pub_topic")
    /\ UNCHANGED << rtcPeer, spSock, spTopic, isPublisher, hasClosed, mutex,
                    cmd, ret, sample, subOn, subData, ctxDone, envVars, budget >>

\* setTopic: spTopic = the 4 little-endian bytes of hash(c.channelName)
setTopic(s) ==
    /\ CanLock(s)
    /\ spTopic' = [spTopic EXCEPT ![s] = PutUint32(hash(channelName[s]))]

PubTopic(s) ==
    /\ On(s, Sig, "pub_topic")
    /\ setTopic(s)
    /\ Goto(s, Sig, "pub_sock")
    /\ UNCHANGED << rtcPeer, spSock, channelName, isPublisher, hasClosed, mutex,
                    cmd, ret, sample, subOn, subData, ctxDone, envVars, budget >>

\* c.Lock(); c.spSock = pubSocket; c.Unlock()
PubSock(s) ==
    /\ On(s, Sig, "pub_sock")
    /\ CanLock(s)
    /\ spSock' = [spSock EXCEPT ![s] = pubSocket]
    /\ Goto(s, Sig, "pub_reg")
    /\ UNCHANGED << rtcPeer, channelName, spTopic, isPublisher, hasClosed, mutex,
                    cmd, ret, sample, subOn, subData, ctxDone, envVars, budget >>

\* reg.AddPublisher(c.channelName), which may reject
PubReg(s, ok) ==
    /\ On(s, Sig, "pub_reg")
    /\ regCalls' = regCalls \cup { << "AddPublisher", s >> }
    /\ IF ok THEN Keep ELSE Spend
    /\ Return(s, IF ok THEN "ok" ELSE "ErrReg")
    /\ UNCHANGED << connVars, cmd, sample, subOn, subData, ctxDone,
                    publisherPassword, closeLog, panicked, pubClosed,
                    socks, nsocks, trackOut, published, expected >>

\* connectSubscriber, up to the first Lock: the checks, then
\* c.channelName = cmd.Channel
ConnectSubscriber(s, name, cap) ==
    /\ On(s, Sig, "idle")
    \* the run creates at most cap sockets
    /\ nsocks + Cardinality({ r \in Sessions : At(r, Sig, "sub_sock") }) < cap
    /\ Spend
    /\ cmd' = [cmd EXCEPT ![s] = [kind |-> "subscriber", channel |-> name, password |-> << >>]]
    /\ IF SubscriberCheck(s, name) = "pass"
       THEN /\ channelName' = [channelName EXCEPT ![s] = name]
            /\ ret' = [ret EXCEPT ![s] = "pending"]
            /\ Goto(s, Sig, "sub_sock")
       ELSE /\ Return(s, SubscriberCheck(s, name))
            /\ UNCHANGED channelName
    /\ UNCHANGED << rtcPeer, spSock, spTopic, isPublisher, hasClosed, mutex,
                    sample, subOn, subData, ctxDone, envVars >>

\* c.Lock(); c.spSock, err = sub.NewSocket(); c.Unlock()
SubSock(s, ok) ==
    /\ On(s, Sig, "sub_sock")
    /\ CanLock(s)
    /\ IF ok
       THEN /\ Keep
            /\ nsocks' = nsocks + 1
            /\ socks' = [socks EXCEPT ![nsocks + 1] =
                            [st |-> "open", owner |-> s, filter |-> {}, q |-> << >>]]
            /\ spSock' = [spSock EXCEPT ![s] = nsocks + 1]
            /\ Goto(s, Sig, "sub_dial")
            /\ UNCHANGED ret
       ELSE /\ Spend
            /\ spSock' = [spSock EXCEPT ![s] = nilSock]
            /\ Return(s, "ErrSock")
            /\ UNCHANGED << nsocks, socks >>
    /\ UNCHANGED << rtcPeer, channelName, spTopic, isPublisher, hasClosed, mutex,
                    cmd, sample, subOn, subData, ctxDone,
                    publisherPassword, closeLog, panicked, pubClosed,
                    regCalls, trackOut, published, expected >>

\* c.spSock.Dial("inproc://babelcast/"), which fails on a closed socket
SubDial(s, ok) ==
    /\ On(s, Sig, "sub_dial")
    /\ IF ok /\ socks[spSock[s]].st /= "closed"
       THEN /\ Keep
            /\ socks' = [socks EXCEPT ![spSock[s]].st = "dialed"]
            /\ Goto(s, Sig, "sub_topic")
            /\ UNCHANGED ret
       ELSE /\ IF ok THEN Keep ELSE Spend
            /\ Return(s, "ErrDial")
            /\ UNCHANGED socks
    /\ UNCHANGED << connVars, cmd, sample, subOn, subData, ctxDone,
                    publisherPassword, closeLog, panicked, pubClosed,
                    nsocks, regCalls, trackOut, published, expected >>

SubTopic(s) ==
    /\ On(s, Sig, "sub_topic")
    /\ setTopic(s)
    /\ Goto(s, Sig, "sub_opt")
    /\ UNCHANGED << rtcPeer, spSock, channelName, isPublisher, hasClosed, mutex,
                    cmd, ret, sample, subOn, subData, ctxDone, envVars, budget >>

\* c.Lock(); c.spSock.SetOption(mangos.OptionSubscribe, c.spTopic); c.Unlock(),
\* which fails on a closed socket
SubOpt(s, ok) ==
    /\ On(s, Sig, "sub_opt")
    /\ CanLock(s)
    /\ IF ok /\ socks[spSock[s]].st /= "closed"
       THEN /\ Keep
            /\ socks' = [socks EXCEPT ![spSock[s]].filter = @ \cup { spTopic[s] }]
            /\ Goto(s, Sig, "sub_reg")
            /\ UNCHANGED ret
       ELSE /\ IF ok THEN Keep ELSE Spend
            /\ Return(s, "ErrSubscribe")
            /\ UNCHANGED socks
    /\ UNCHANGED << connVars, cmd, sample, subOn, subData, ctxDone,
                    publisherPassword, closeLog, panicked, pubClosed,
                    nsocks, regCalls, trackOut, published, expected >>

\* reg.AddSubscriber(c.channelName); when it accepts, the read goroutine
\* is started
SubReg(s, ok) ==
    /\ On(s, Sig, "sub_reg")
    /\ regCalls' = regCalls \cup { << "AddSubscriber", s >> }
    /\ ret' = [ret EXCEPT ![s] = IF ok THEN "ok" ELSE "ErrReg"]
    /\ IF ok
       THEN /\ Keep
            /\ pc' = [pc EXCEPT ![s][Sig] = "idle", ![s][Sub(spSock[s])] = "s_top"]
       ELSE /\ Spend
            /\ pc' = [pc EXCEPT ![s][Sig] = "idle"]
    /\ UNCHANGED << connVars, cmd, sample, subOn, subData, ctxDone,
                    publisherPassword, closeLog, panicked, pubClosed,
                    socks, nsocks, trackOut, published, expected >>

(***************************************************************************)
(* Close                                                                   *)
(***************************************************************************)
\* where a task goes on when its Close call returns
CloseRet(t) == IF t = Log THEN "select"
               ELSE IF t = Ice THEN "i_info_nb"
               ELSE "done"

\* a Close that tears down whatever the flag says
AlreadyClosedNever(s) == FALSE

\* if c.hasClosed { return }
AlreadyClosed(s) == hasClosed[s]

\* c.spSock != nil && !c.isPublisher
ClosesSock(s) == spSock[s] /= nilSock /\ ~isPublisher[s]

\* a teardown that starts with the signaling connection
TeardownWsFirst(s) ==
    << "ws", "quit" >>
    \o (IF rtcPeer[s] THEN << "rtc" >> ELSE << >>)
    \o (IF ClosesSock(s)
        THEN << IF spSock[s] = pubSocket THEN "pub" ELSE "sub" >>
        ELSE << >>)

\* what Close closes, in the order it closes it
Teardown(s) ==
    << "quit" >>
    \o (IF rtcPeer[s] THEN << "rtc" >> ELSE << >>)
    \o (IF ClosesSock(s)
        THEN << IF spSock[s] = pubSocket THEN "pub" ELSE "sub" >>
        ELSE << >>)
    \o << "ws" >>

\* Close: Lock, the flag check, the teardown, the deferred Unlock
Close(s, t) ==
    /\ On(s, t, "close_lock")
    /\ CanLock(s)
    /\ IF AlreadyClosed(s)
       THEN UNCHANGED << closeLog, hasClosed, socks, pubClosed, panicked >>
       ELSE /\ closeLog' = [closeLog EXCEPT ![s] = @ \o Teardown(s)]
            \* close of a closed channel panics
            /\ panicked' = (panicked \/ Closed(s, "quit"))
            /\ hasClosed' = [hasClosed EXCEPT ![s] = TRUE]
            /\ pubClosed' = (pubClosed \/ (ClosesSock(s) /\ spSock[s] = pubSocket))
            /\ socks' = IF ClosesSock(s) /\ spSock[s] \in SockIds
                        THEN [socks EXCEPT ![spSock[s]].st = "closed"]
                        ELSE socks
    /\ Goto(s, t, CloseRet(t))
    /\ UNCHANGED << rtcPeer, spSock, channelName, spTopic, isPublisher, mutex,
                    cmd, ret, sample, subOn, subData, ctxDone,
                    publisherPassword, nsocks, regCalls, trackOut, published, expected,
                    budget >>

\* the signaling loop ends: its context is cancelled and the session closed
SigExit(s) ==
    /\ On(s, Sig, "idle")
    /\ ctxDone' = [ctxDone EXCEPT ![s] = TRUE]
    /\ Goto(s, Sig, "close_lock")
    /\ UNCHANGED << connVars, cmd, ret, sample, subOn, subData, envVars, budget >>

(***************************************************************************)
(* The publisher pipeline: the goroutine rtcTrackHandler starts            *)
(***************************************************************************)
\* the media engine reports an inbound track
TrackStart(s) ==
    /\ On(s, Track, "none")
    /\ rtcPeer[s]
    /\ ~Closed(s, "rtc")
    /\ Goto(s, Track, "t_top")
    /\ UNCHANGED << connVars, cmd, ret, sample, subOn, subData, ctxDone, envVars, budget >>

\* the quit check, then track.ReadRTP(), which fails once the peer
\* connection is closed
TrackRead(s, ok) ==
    /\ On(s, Track, "t_top")
    /\ IF Closed(s, "quit")
       THEN /\ ok
            /\ Keep
            /\ Goto(s, Track, "close_lock")
       ELSE IF ok
       THEN /\ Keep
            /\ Goto(s, Track, "t_chk")
       ELSE /\ Spend
            /\ Goto(s, Track, "t_err")
    /\ UNCHANGED << connVars, cmd, ret, sample, subOn, subData, ctxDone, envVars >>

\* a check that finds a bus socket whatever c.spSock is
UnboundNever(s) == FALSE

\* if c.spSock == nil: publisher hasn't connected yet
Unbound(s) == spSock[s] = nilSock

\* the packet is pushed into the sample builder only past the nil check, so
\* a packet read while there is no bus socket leaves nothing behind:
\* c.Lock(); if c.spSock == nil { c.Unlock(); continue }; c.Unlock();
\* sb.Push(p); sample := sb.Pop(); if sample == nil { continue }
TrackCheck(s, smp) ==
    /\ On(s, Track, "t_chk")
    /\ CanLock(s)
    /\ IF Unbound(s) \/ smp = NoSample
       THEN /\ smp = NoSample
            /\ Keep
            /\ Goto(s, Track, "t_top")
            /\ UNCHANGED sample
       ELSE /\ Spend
            /\ sample' = [sample EXCEPT ![s] = smp]
            /\ Goto(s, Track, "t_send")
    /\ UNCHANGED << connVars, cmd, ret, subOn, subData, ctxDone, envVars >>

RECURSIVE IsPrefix(_, _)
IsPrefix(p, m) == \/ p = << >>
                  \/ /\ m /= << >>
                     /\ Head(p) = Head(m)
                     /\ IsPrefix(Tail(p), Tail(m))

\* buf := bytes.NewBuffer(c.spTopic); binary.Write(buf, LittleEndian,
\* sample.Samples); buf.Write(sample.Data)
Frame(topic, smp) == topic \o PutUint32(smp.Samples) \o smp.Data

\* the bus hands a message to every dialed sub socket with a subscription
\* that is a prefix of it
Matches(k, bytes) ==
    /\ socks[k].st = "dialed"
    /\ \E f \in socks[k].filter : IsPrefix(f, bytes)

\* a session with a live subscription
Subscribed(r) ==
    \E k \in SockIds : /\ socks[k].owner = r
                       /\ socks[k].st = "dialed"
                       /\ socks[k].filter /= {}

\* what c.spSock.Send returns: pubSocket publishes unless it is closed or
\* fails; a sub socket cannot send
SendResults(s) ==
    IF spSock[s] = nilSock THEN { "nil" }
    ELSE IF spSock[s] = pubSocket
    THEN (IF pubClosed THEN { "ErrClosed" } ELSE { "ok", "fault" })
    ELSE (IF socks[spSock[s]].st = "closed" THEN { "ErrClosed" } ELSE { "ErrProtoOp" })

\* c.Lock(); the frame is built and sent.  On ErrClosed the goroutine
\* returns, on another error it sends on errChan, in both cases with the
\* mutex still held
TrackSend(s, o) ==
    /\ On(s, Track, "t_send")
    /\ CanLock(s)
    /\ o \in SendResults(s)
    /\ LET bytes == Frame(spTopic[s], sample[s]) IN
       IF o = "ok"
       THEN /\ socks' = [k \in SockIds |->
                           IF Matches(k, bytes)
                           THEN [socks[k] EXCEPT !.q =
                                    Append(@, [bytes |-> bytes, chan |-> channelName[s],
                                               smp |-> sample[s]])]
                           ELSE socks[k]]
            /\ published' = [published EXCEPT ![s] = Append(@, bytes)]
            /\ expected' = [r \in Sessions |->
                              IF Subscribed(r) /\ channelName[r] = channelName[s]
                              THEN Append(expected[r], sample[s])
                              ELSE expected[r]]
            /\ Goto(s, Track, "t_top")
            /\ Keep
            /\ UNCHANGED << mutex, panicked >>
       ELSE /\ mutex' = [mutex EXCEPT ![s] = Track]
            /\ IF o = "fault" THEN Spend ELSE Keep
            \* a method call on a nil interface value panics
            /\ panicked' = (panicked \/ o = "nil")
            /\ Goto(s, Track, IF o = "ErrClosed" THEN "close_lock"
                              ELSE IF o = "nil" THEN "panic" ELSE "t_err_locked")
            /\ UNCHANGED << socks, published, expected >>
    \* the sample goes out of scope with the iteration
    /\ sample' = [sample EXCEPT ![s] = NoSample]
    /\ UNCHANGED << rtcPeer, spSock, channelName, spTopic, isPublisher, hasClosed,
                    cmd, ret, subOn, subData, ctxDone,
                    publisherPassword, closeLog, pubClosed,
                    nsocks, regCalls, trackOut >>

(***************************************************************************)
(* The subscriber pipeline: the goroutine connectSubscriber starts         *)
(***************************************************************************)
Owner(k) == socks[k].owner

\* select { case <-ctx.Done(): return; default: }, then c.spSock is read
\* for the Recv call
SubLoop(k) ==
    /\ Owner(k) \in Sessions
    /\ On(Owner(k), Sub(k), "s_top")
    /\ IF ctxDone[Owner(k)]
       THEN /\ Goto(Owner(k), Sub(k), "close_lock")
            /\ UNCHANGED subOn
       ELSE /\ Goto(Owner(k), Sub(k), "s_recv")
            /\ subOn' = [subOn EXCEPT ![k] = spSock[Owner(k)]]
    /\ UNCHANGED << connVars, cmd, ret, sample, subData, ctxDone, envVars, budget >>

\* what Recv on socket j returns: a pub socket cannot receive, a closed
\* socket says so, a sub socket hands over the head of its queue or fails
RecvResults(j) ==
    IF j = nilSock THEN { "nil" }
    ELSE IF j = pubSocket THEN (IF pubClosed THEN { "ErrClosed" } ELSE { "ErrProtoOp" })
    ELSE IF socks[j].st = "closed" THEN { "ErrClosed" }
    ELSE (IF socks[j].q /= << >> THEN { "ok" } ELSE {})
         \cup (IF socks[j].st = "dialed" THEN { "fault" } ELSE {})

\* data, err = c.spSock.Recv() and the error branches
SubRecv(k, o) ==
    /\ Owner(k) \in Sessions
    /\ On(Owner(k), Sub(k), "s_recv")
    /\ o \in RecvResults(subOn[k])
    /\ IF o = "ok"
       THEN /\ subData' = [subData EXCEPT ![k] = Head(socks[subOn[k]].q)]
            /\ socks' = [socks EXCEPT ![subOn[k]].q = Tail(@)]
            /\ Goto(Owner(k), Sub(k), "s_write")
            /\ Keep
            /\ UNCHANGED panicked
       ELSE /\ IF o = "fault" THEN Spend ELSE Keep
            \* a method call on a nil interface value panics
            /\ panicked' = (panicked \/ o = "nil")
            /\ Goto(Owner(k), Sub(k), IF o = "ErrClosed" THEN "close_lock"
                                      ELSE IF o = "nil" THEN "panic" ELSE "s_err")
            /\ UNCHANGED << subData, socks >>
    /\ subOn' = [subOn EXCEPT ![k] = nilSock]
    /\ UNCHANGED << connVars, cmd, ret, sample, ctxDone,
                    publisherPassword, closeLog, pubClosed,
                    nsocks, regCalls, trackOut, published, expected >>

\* sample.Samples = binary.LittleEndian.Uint32(data[4:8])
DecodeSamples(bytes) == Uint32(SubSeq(bytes, 5, 8))

\* the payload cut one byte early
DecodeDataFrom7(bytes) == SubSeq(bytes, 8, Len(bytes))

\* sample.Data = data[8:]
DecodeData(bytes) == SubSeq(bytes, 9, Len(bytes))

\* data[8:] of a slice shorter than 8 bytes is out of range
DecodePanics(bytes) == Len(bytes) < 8

\* the sample is cut out of the message and written to the outbound track
SubWrite(k) ==
    /\ Owner(k) \in Sessions
    /\ On(Owner(k), Sub(k), "s_write")
    /\ IF DecodePanics(subData[k].bytes)
       THEN /\ panicked' = TRUE
            /\ Goto(Owner(k), Sub(k), "panic")
            /\ UNCHANGED trackOut
       ELSE /\ trackOut' = [trackOut EXCEPT ![Owner(k)] =
                              Append(@, [Samples |-> DecodeSamples(subData[k].bytes),
                                         Data |-> DecodeData(subData[k].bytes),
                                         chan |-> subData[k].chan])]
            /\ Goto(Owner(k), Sub(k), "s_top")
            /\ UNCHANGED panicked
    /\ subData' = [subData EXCEPT ![k] = NoMsg]
    /\ UNCHANGED << connVars, cmd, ret, sample, subOn, ctxDone,
                    publisherPassword, closeLog, pubClosed, socks,
                    nsocks, regCalls, published, expected, budget >>

(***************************************************************************)
(* LogHandler, the event relay, and the ICE state callback                 *)
(***************************************************************************)
\* a task blocked in c.errChan <- err
SendsErr(s, t) == pc[s][t] \in { "t_err", "t_err_locked", "s_err" }

\* case <-ctx.Done(): return
LogDone(s) ==
    /\ On(s, Log, "select")
    /\ ctxDone[s]
    /\ Goto(s, Log, "done")
    /\ UNCHANGED << connVars, cmd, ret, sample, subOn, subData, ctxDone, envVars, budget >>

\* a goroutine that returns once its error is taken
LoopTopReturn(t) == "close_lock"

\* after its send on errChan a pipeline goroutine goes round its loop
\* (c.Unlock() and the end of the for body, or continue)
LoopTop(t) == IF t = Track THEN "t_top" ELSE "s_top"

\* case err := <-c.errChan: the sender goes on; the track goroutine
\* releases the mutex if it sent with the mutex held
LogRecvErr(s, t) ==
    /\ On(s, Log, "select")
    /\ SendsErr(s, t)
    /\ pc' = [pc EXCEPT ![s][Log] = "l_err", ![s][t] = LoopTop(t)]
    /\ mutex' = [mutex EXCEPT ![s] = IF At(s, t, "t_err_locked") THEN NoTask ELSE @]
    /\ UNCHANGED << rtcPeer, spSock, channelName, spTopic, isPublisher, hasClosed,
                    cmd, ret, sample, subOn, subData, ctxDone, envVars, budget >>

\* case info := <-c.infoChan, from the callback's blocking send
LogRecvInfo(s) ==
    /\ On(s, Log, "select")
    /\ At(s, Ice, "i_info")
    /\ pc' = [pc EXCEPT ![s][Log] = "l_info", ![s][Ice] = "idle"]
    /\ UNCHANGED << connVars, cmd, ret, sample, subOn, subData, ctxDone, envVars, budget >>

\* writeMsg under the mutex; after an error message, Close
LogWrite(s) ==
    /\ ~panicked
    /\ pc[s][Log] \in { "l_err", "l_info" }
    /\ CanLock(s)
    /\ Goto(s, Log, IF At(s, Log, "l_err") THEN "close_lock" ELSE "select")
    /\ UNCHANGED << connVars, cmd, ret, sample, subOn, subData, ctxDone, envVars, budget >>

\* rtcStateChangeHandler(ConnectionStateConnected)
IceConnected(s) ==
    /\ On(s, Ice, "idle")
    /\ rtcPeer[s]
    /\ ~Closed(s, "rtc")
    /\ Spend
    /\ Goto(s, Ice, "i_info")
    /\ UNCHANGED << connVars, cmd, ret, sample, subOn, subData, ctxDone, envVars >>

\* rtcStateChangeHandler(ConnectionStateDisconnected): Close first
IceDisconnected(s) ==
    /\ On(s, Ice, "idle")
    /\ rtcPeer[s]
    /\ Spend
    /\ Goto(s, Ice, "close_lock")
    /\ UNCHANGED << connVars, cmd, ret, sample, subOn, subData, ctxDone, envVars >>

\* select { case c.infoChan <- "ice disconnected": default: }
IceInfo(s) ==
    /\ On(s, Ice, "i_info_nb")
    /\ pc' = [pc EXCEPT ![s][Ice] = "idle",
                        ![s][Log] = IF At(s, Log, "select") THEN "l_info" ELSE @]
    /\ UNCHANGED << connVars, cmd, ret, sample, subOn, subData, ctxDone, envVars, budget >>

(***************************************************************************)
(* The system                                                              *)
(***************************************************************************)
SetupOutcomes == { "newpc_err", "answer_err", "local_err", "ok" }
CallOutcomes == { "ok", "fault", "ErrClosed", "ErrProtoOp", "nil" }

\* one session with all its tasks
Next ==
    \/ \E o \in SetupOutcomes : SetupSession(1, o)
    \/ SetupWrite(1)
    \/ \E name \in RunNames : ConnectPublisher(1, name, Secret)
    \/ PubName(1)
    \/ PubTopic(1)
    \/ PubSock(1)
    \/ \E ok \in BOOLEAN : PubReg(1, ok)
    \/ \E name \in RunNames : ConnectSubscriber(1, name, MaxSubSocks)
    \/ \E ok \in BOOLEAN : SubSock(1, ok)
    \/ \E ok \in BOOLEAN : SubDial(1, ok)
    \/ SubTopic(1)
    \/ \E ok \in BOOLEAN : SubOpt(1, ok)
    \/ \E ok \in BOOLEAN : SubReg(1, ok)
    \/ SigExit(1)
    \/ \E t \in Tasks : Close(1, t)
    \/ TrackStart(1)
    \/ \E ok \in BOOLEAN : TrackRead(1, ok)
    \/ \E smp \in OneSample \cup { NoSample } : TrackCheck(1, smp)
    \/ \E o \in CallOutcomes : TrackSend(1, o)
    \/ \E k \in SockIds : SubLoop(k)
    \/ \E k \in SockIds, o \in CallOutcomes : SubRecv(k, o)
    \/ \E k \in SockIds : SubWrite(k)
    \/ LogDone(1)
    \/ \E t \in Tasks : LogRecvErr(1, t)
    \/ LogRecvInfo(1)
    \/ LogWrite(1)
    \/ IceConnected(1)
    \/ IceDisconnected(1)
    \/ IceInfo(1)

Spec == Init /\ [][Next]_vars

\* a publisher session (1) and a subscriber session (2) over the bus, with
\* no failing external call
InitBus ==
    /\ InitConn
    /\ publisherPassword = Secret
    /\ budget = MaxBusEvents

PublisherStep(names, samples) ==
    \/ SetupSession(1, "ok")
    \/ SetupWrite(1)
    \/ \E name \in names : ConnectPublisher(1, name, Secret)
    \/ PubName(1)
    \/ PubTopic(1)
    \/ PubSock(1)
    \/ PubReg(1, TRUE)
    \/ TrackStart(1)
    \/ TrackRead(1, TRUE)
    \/ \E smp \in samples \cup { NoSample } : TrackCheck(1, smp)
    \/ \E o \in { "ok", "ErrClosed" } : TrackSend(1, o)

SubscriberStep(names) ==
    \/ SetupSession(2, "ok")
    \/ SetupWrite(2)
    \/ \E name \in names : ConnectSubscriber(2, name, MaxBusSocks)
    \/ SubSock(2, TRUE)
    \/ SubDial(2, TRUE)
    \/ SubTopic(2)
    \/ SubOpt(2, TRUE)
    \/ SubReg(2, TRUE)
    \/ \E k \in SockIds : SubLoop(k)
    \/ \E k \in SockIds, o \in { "ok", "ErrClosed" } : SubRecv(k, o)
    \/ \E k \in SockIds : SubWrite(k)
    \/ SigExit(2)
    \/ \E t \in Tasks : Close(2, t)

NextBus == PublisherStep(RunNames, RunSamples) \/ SubscriberStep(RunNames)

SpecBus == InitBus /\ [][NextBus]_vars

\* one session whose only failures are those of Send and Recv: no command
\* fails, the signaling loop does not end and ICE stays up
NextTransient ==
    \/ SetupSession(1, "ok")
    \/ SetupWrite(1)
    \/ \E name \in RunNames : ConnectPublisher(1, name, Secret)
    \/ PubName(1)
    \/ PubTopic(1)
    \/ PubSock(1)
    \/ PubReg(1, TRUE)
    \/ \E name \in RunNames : ConnectSubscriber(1, name, MaxSubSocks)
    \/ SubSock(1, TRUE)
    \/ SubDial(1, TRUE)
    \/ SubTopic(1)
    \/ SubOpt(1, TRUE)
    \/ SubReg(1, TRUE)
    \/ \E t \in Tasks : Close(1, t)
    \/ TrackStart(1)
    \/ TrackRead(1, TRUE)
    \/ \E smp \in OneSample \cup { NoSample } : TrackCheck(1, smp)
    \/ \E o \in CallOutcomes : TrackSend(1, o)
    \/ \E k \in SockIds : SubLoop(k)
    \/ \E k \in SockIds, o \in CallOutcomes : SubRecv(k, o)
    \/ \E k \in SockIds : SubWrite(k)
    \/ \E t \in Tasks : LogRecvErr(1, t)
    \/ LogWrite(1)

SpecTransient == Init /\ [][NextTransient]_vars

\* the two sessions with one channel name between them
NextOrder == PublisherStep({ NameA }, RunSamples) \/ SubscriberStep({ NameA })

SpecOrder == InitBus /\ [][NextOrder]_vars

\* the same two sessions, with samples over the whole
\* range of the sample count
NextCodec == PublisherStep(CodecNames, WideSamples) \/ SubscriberStep(CodecNames)

InitCodec ==
    /\ InitConn
    /\ publisherPassword = Secret
    /\ budget = MaxCodecEvents

SpecCodec == InitCodec /\ [][NextCodec]_vars

\* the signaling loop of one session alone, with the commands' arguments
\* over the wide sets
InitConnect ==
    /\ InitConn
    /\ publisherPassword \in { << >>, Secret }
    /\ budget = MaxConnectEvents

NextConnect ==
    \/ \E o \in SetupOutcomes : SetupSession(1, o)
    \/ SetupWrite(1)
    \/ \E name \in WideNames, pw \in WidePasswords : ConnectPublisher(1, name, pw)
    \/ PubName(1)
    \/ PubTopic(1)
    \/ PubSock(1)
    \/ \E ok \in BOOLEAN : PubReg(1, ok)
    \/ \E name \in WideNames : ConnectSubscriber(1, name, MaxSubSocks)
    \/ \E ok \in BOOLEAN : SubSock(1, ok)
    \/ \E ok \in BOOLEAN : SubDial(1, ok)
    \/ SubTopic(1)
    \/ \E ok \in BOOLEAN : SubOpt(1, ok)
    \/ \E ok \in BOOLEAN : SubReg(1, ok)
    \/ SigExit(1)
    \/ Close(1, Sig)

SpecConnect == InitConnect /\ [][NextConnect]_vars

\* the subscriber goroutine of a bound session and one message taken off
\* the bus: the subscribed topic, then up to MaxTail bytes
RECURSIVE Tails(_)
Tails(n) == IF n = 0 THEN { << >> }
            ELSE Tails(n - 1) \cup
                 { << b >> \o t : b \in { 0, 255 }, t \in { u \in Tails(n - 1) : Len(u) = n - 1 } }

TopicA == PutUint32(hash(NameA))

InitDecode ==
    /\ rtcPeer = [s \in Sessions |-> s = 2]
    /\ spSock = [s \in Sessions |-> IF s = 2 THEN 1 ELSE nilSock]
    /\ channelName = [s \in Sessions |-> IF s = 2 THEN NameA ELSE << >>]
    /\ spTopic = [s \in Sessions |-> IF s = 2 THEN TopicA ELSE << >>]
    /\ isPublisher = [s \in Sessions |-> FALSE]
    /\ hasClosed = [s \in Sessions |-> FALSE]
    /\ mutex = [s \in Sessions |-> NoTask]
    /\ pc = [s \in Sessions |-> [t \in Tasks |->
                IF t = Sig THEN "idle"
                ELSE IF t = Log THEN "select"
                ELSE IF t = Ice THEN "idle"
                ELSE IF s = 2 /\ t = Sub(1) THEN "s_top" ELSE "none"]]
    /\ cmd = [s \in Sessions |-> NoCmd]
    /\ ret = [s \in Sessions |-> IF s = 2 THEN "ok" ELSE "none"]
    /\ sample = [s \in Sessions |-> NoSample]
    /\ subOn = [k \in SockIds |-> nilSock]
    /\ subData = [k \in SockIds |-> NoMsg]
    /\ ctxDone = [s \in Sessions |-> FALSE]
    /\ publisherPassword = Secret
    /\ closeLog = [s \in Sessions |-> << >>]
    /\ panicked = FALSE
    /\ pubClosed = FALSE
    /\ \E t \in Tails(MaxTail) :
          socks = [k \in SockIds |->
                     IF k = 1
                     THEN [st |-> "dialed", owner |-> 2, filter |-> { TopicA },
                           q |-> << [bytes |-> TopicA \o t, chan |-> NameA, smp |-> NoSample] >>]
                     ELSE FreeSock]
    /\ nsocks = 1
    /\ regCalls = { << "AddSubscriber", 2 >> }
    /\ trackOut = [s \in Sessions |-> << >>]
    /\ published = [s \in Sessions |-> << >>]
    /\ expected = [s \in Sessions |-> << >>]
    /\ budget = 0

NextDecode ==
    \/ SubLoop(1)
    \/ \E o \in { "ok" } : SubRecv(1, o)
    \/ SubWrite(1)

SpecDecode == InitDecode /\ [][NextDecode]_vars

(***************************************************************************)
(* Properties of Close                                                     *)
(***************************************************************************)
Count(seq, r) == Cardinality({ i \in 1 .. Len(seq) : seq[i] = r })

\* the teardowns one Close can perform
TeardownShapes ==
    { << "quit" >> \o a \o b \o << "ws" >> :
         a \in { << >>, << "rtc" >> }, b \in { << >>, << "pub" >>, << "sub" >> } }

\* C1: however many tasks call Close, and from whatever state, the quit
\* channel, the peer connection, the bus socket and the signaling connection
\* of a session are each closed at most once (so close(trackQuitChan) never
\* panics), nothing is closed before the flag is set, and once a Close has
\* set the flag exactly one teardown has been performed.
C1_CloseOnce ==
    \A s \in Sessions :
        /\ \A r \in { "quit", "rtc", "pub", "sub", "ws" } : Count(closeLog[s], r) <= 1
        /\ hasClosed[s] => closeLog[s] \in TeardownShapes
        /\ ~hasClosed[s] => closeLog[s] = << >>

\* two tasks of a bound session have returned from Close
C1_Witness ==
    /\ At(1, Ice, "i_info_nb")
    /\ At(1, Track, "done")
    /\ closeLog[1] = << "quit", "rtc", "sub", "ws" >>

\* C2: no Close of a session closes the shared publish socket.
C2_PubSocketStaysOpen == ~pubClosed

\* a session bound as publisher has run Close
C2_Witness ==
    /\ spSock[1] = pubSocket
    /\ hasClosed[1]

\* C10: after AddPublisher or AddSubscriber has rejected a connect command,
\* the session publishes no frame and starts no subscriber goroutine.
C10_RegistryRejectionAborts ==
    [][\A s \in Sessions :
          (At(s, Sig, "idle") /\ ret[s] = "ErrReg")
             => /\ published'[s] = published[s]
                /\ \A k \in SockIds : pc[s][Sub(k)] = "none" => pc'[s][Sub(k)] = "none"]_vars

\* the registry has rejected a connect-publisher command
C10_Witness ==
    /\ At(1, Sig, "idle")
    /\ ret[1] = "ErrReg"
    /\ cmd[1].kind = "publisher"

(***************************************************************************)
(* Properties of the connect commands                                      *)
(***************************************************************************)
\* a connect command returns in the step that takes it, and leaves the
\* session as it found it
RejectedBy(s, errs) ==
    /\ ret'[s] \in errs
    /\ pc'[s][Sig] = "idle"
    /\ channelName'[s] = channelName[s]
    /\ spTopic'[s] = spTopic[s]
    /\ spSock'[s] = spSock[s]
    /\ hasClosed'[s] = hasClosed[s]
    /\ regCalls' = regCalls
    /\ published' = published
    /\ socks' = socks
    /\ \A k \in SockIds : pc'[s][Sub(k)] = pc[s][Sub(k)]

\* In the formulas below the command a step takes is read off cmd', where
\* the step records it.

\* C3: a connect command taken while rtcPeer is nil returns an error and
\* leaves channelName, spTopic, spSock and hasClosed as they were, calls no
\* registry and starts no subscriber goroutine.
C3_ConnectBeforeSetup ==
    [][\A s \in Sessions :
          LET name == cmd'[s].channel
              pw == cmd'[s].password
          IN  ((ConnectPublisher(s, name, pw) \/ ConnectSubscriber(s, name, MaxSubSocks))
                 /\ ~rtcPeer[s])
              => RejectedBy(s, { "ErrNoSession" })]_vars

\* a connect command was refused for want of a peer connection
C3_Witness ==
    /\ At(1, Sig, "idle")
    /\ ~rtcPeer[1]
    /\ cmd[1].kind = "publisher"
    /\ cmd[1].channel = NameA
    /\ cmd[1].password = Secret
    /\ ret[1] = "ErrNoSession"

\* C4: with a secret configured, a connect-publisher command carrying
\* another password returns an error and leaves channelName, spTopic and
\* spSock as they were; no registry is called, the session is not closed
\* and nothing is published.
C4_WrongPassword ==
    [][\A s \in Sessions :
          LET name == cmd'[s].channel
              pw == cmd'[s].password
          IN  (ConnectPublisher(s, name, pw)
                 /\ publisherPassword /= << >> /\ pw /= publisherPassword)
              => RejectedBy(s, { "ErrNoSession", "ErrEmpty", "ErrChars", "ErrPassword" })]_vars

\* a well-formed connect-publisher command was refused for its password
C4_Witness ==
    /\ At(1, Sig, "idle")
    /\ rtcPeer[1]
    /\ cmd[1].kind = "publisher"
    /\ cmd[1].channel = NameA
    /\ cmd[1].password = << 113 >>
    /\ publisherPassword = Secret
    /\ ret[1] = "ErrPassword"

\* a name of ASCII letters, digits and spaces, at least one of them
Letters == (97 .. 122) \cup (65 .. 90)
Digits == 48 .. 57
ValidChannel(name) ==
    /\ Len(name) > 0
    /\ \A i \in 1 .. Len(name) : name[i] \in Letters \cup Digits \cup { 32 }

\* C5: in a session with a peer connection, connectPublisher and
\* connectSubscriber refuse a name with a validation error exactly when the
\* name is empty or holds a character that is no ASCII letter, digit or
\* space; a refused name leaves channelName, spTopic and spSock as they were.
C5_ChannelValidation ==
    [][\A s \in Sessions :
          LET name == cmd'[s].channel
              pw == cmd'[s].password
          IN  ((ConnectPublisher(s, name, pw) \/ ConnectSubscriber(s, name, MaxSubSocks))
                 /\ rtcPeer[s])
              => /\ ret'[s] \in { "ErrEmpty", "ErrChars" } <=> ~ValidChannel(name)
                 /\ ~ValidChannel(name) => RejectedBy(s, { "ErrEmpty", "ErrChars" })]_vars

\* "a 1" was accepted and bound, then "a#1" refused
C5_Witness ==
    /\ At(1, Sig, "idle")
    /\ channelName[1] = << 97, 32, 49 >>
    /\ cmd[1].channel = << 97, 35, 49 >>
    /\ ret[1] = "ErrChars"

(***************************************************************************)
(* Properties of the two pipelines over the bus                            *)
(***************************************************************************)
\* what session r has written to its outbound track
Written(r) ==
    [i \in 1 .. Len(trackOut[r]) |->
        [Samples |-> trackOut[r][i].Samples, Data |-> trackOut[r][i].Data]]

\* C6: what a subscriber session has written to its outbound track is, in
\* order, count and payload, the start of what publishers bound to its
\* channel have published since it subscribed: nothing is written twice,
\* out of order or altered.
C6_DeliveryInOrder ==
    \A r \in Sessions : IsPrefix(Written(r), expected[r])

\* a published sample has been written to the subscriber's track
C6_Witness ==
    /\ channelName[1] = channelName[2]
    /\ Len(published[1]) > 0
    /\ Len(trackOut[2]) > 0

\* C7: every sample a subscriber session has written to its outbound track
\* was published by a session bound to the subscriber's channel.
C7_TopicFilter ==
    \A r \in Sessions : \A i \in 1 .. Len(trackOut[r]) :
        hash(trackOut[r][i].chan) /= hash(channelName[r]) => FALSE

\* a subscriber has written a sample while a publisher is bound to another
\* channel
C7_Witness ==
    /\ Len(trackOut[2]) > 0
    /\ channelName[1] /= << >>
    /\ hash(channelName[1]) /= hash(channelName[2])

(***************************************************************************)
(* Properties of the frame                                                 *)
(***************************************************************************)
\* the messages socket k holds and the one its goroutine has in hand
InFlight(k) ==
    { socks[k].q[i] : i \in 1 .. Len(socks[k].q) }
       \cup (IF subData[k] = NoMsg THEN {} ELSE { subData[k] })

\* C8: a frame built from a sample with a non-empty payload is 8 +
\* len(payload) bytes long, starts with a topic, and the subscriber
\* goroutine's decoding of it yields the sample's count and payload.
C8_FrameRoundTrip ==
    \A k \in SockIds : \A m \in InFlight(k) :
        m.smp.Data /= << >> =>
            /\ Len(m.bytes) = 8 + Len(m.smp.Data)
            /\ \E name \in CodecNames : SubSeq(m.bytes, 1, 4) = PutUint32(hash(name))
            /\ DecodeSamples(m.bytes) = m.smp.Samples
            /\ DecodeData(m.bytes) = m.smp.Data

\* the subscriber has written the sample with the largest count
C8_Witness ==
    /\ Len(trackOut[2]) > 0
    /\ trackOut[2][1].Samples = U32(65535, 65535)
    /\ trackOut[2][1].Data = << 255, 1 >>
    /\ channelName[2] = << 97, 32, 49 >>

(***************************************************************************)
(* Properties of the decoding of a message from the bus                    *)
(***************************************************************************)
\* C9: a message shorter than 8 bytes makes no goroutine panic: the
\* subscriber goroutine writes nothing for it and goes on to the next Recv.
C9_ShortFrameRecoverable ==
    [][\A k \in SockIds :
          (At(2, Sub(k), "s_write") /\ Len(subData[k].bytes) < 8)
             => /\ ~panicked'
                /\ trackOut' = trackOut
                /\ pc'[2][Sub(k)] = "s_top"]_vars

\* the goroutine has a message of five bytes in hand
C9_Witness ==
    /\ At(2, Sub(1), "s_write")
    /\ Len(subData[1].bytes) = 5

(***************************************************************************)
(* Properties of the tasks' blocking                                       *)
(***************************************************************************)
\* the event relay waits for the mutex, in writeMsg or in Close
LogWantsLock(s) == pc[s][Log] \in { "l_err", "l_info", "close_lock" }

\* C11: no task waits, with the mutex held, for another task that needs the
\* mutex: the track goroutine is never blocked in its send on errChan with
\* the mutex held while the event relay waits for the mutex.
C11_NoLockedSend ==
    \A s \in Sessions :
        ~(At(s, Track, "t_err_locked") /\ mutex[s] = Track /\ LogWantsLock(s))

\* the track goroutine is in its send on errChan with the mutex held
C11_Witness ==
    /\ At(1, Track, "t_err_locked")
    /\ mutex[1] = Track

\* C12: a pipeline goroutine that ends on the socket-closed error runs its
\* deferred Close to the end: it never enters Close with the mutex in its
\* own hands, where Lock cannot return.
C12_ClosedErrorCloses ==
    \A s \in Sessions : \A t \in Tasks :
        At(s, t, "close_lock") => mutex[s] /= t

\* a pipeline goroutine got the socket-closed error and is in its deferred
\* Close
C12_Witness ==
    /\ At(1, Track, "close_lock")
    /\ mutex[1] = Track
    /\ spSock[1] /= nilSock

\* C13: once Close has run, the context is cancelled and the event relay
\* has returned, no pipeline goroutine of the session is left in a send on
\* errChan, which nothing will receive any more.
C13_NoSendLeftBehind ==
    \A s \in Sessions :
        (hasClosed[s] /\ ctxDone[s] /\ At(s, Log, "done"))
           => \A t \in Tasks : ~SendsErr(s, t)

\* the session is closed and cancelled and the event relay has returned
C13_Witness ==
    /\ hasClosed[1]
    /\ ctxDone[1]
    /\ At(1, Log, "done")
    /\ pc[1][Track] /= "none"

(***************************************************************************)
(* Properties of the binding                                               *)
(***************************************************************************)
\* the signaling loop is between commands and the last one, a connect
\* command, succeeded
BoundIdle(s) ==
    /\ At(s, Sig, "idle")
    /\ cmd[s].kind \in { "publisher", "subscriber" }
    /\ ret[s] = "ok"

\* C14: once a connect command has succeeded, nothing the session does
\* next, a further connect command included, changes channelName, spTopic
\* or spSock.
C14_BoundOnce ==
    [][\A s \in Sessions :
          BoundIdle(s) => /\ channelName'[s] = channelName[s]
                          /\ spTopic'[s] = spTopic[s]
                          /\ spSock'[s] = spSock[s]]_vars

\* a connect command has succeeded
C14_Witness ==
    /\ BoundIdle(1)
    /\ channelName[1] = NameA
    /\ spSock[1] = pubSocket

(***************************************************************************)
(* Properties of the event relay                                           *)
(***************************************************************************)
\* the track goroutine holds the mutex where it will not release it before
\* the event relay is back in its select, or at all
TrackKeepsLock(s) ==
    /\ mutex[s] = Track
    /\ pc[s][Track] \in { "t_err_locked", "close_lock" }

\* C15: an error the event relay has received is followed by writeMsg and
\* then by Close: the relay is never left holding a received error in front
\* of a mutex that will not be released.
C15_ErrorIsRelayed ==
    \A s \in Sessions : At(s, Log, "l_err") => ~TrackKeepsLock(s)

\* the event relay has received an error and not yet written it
C15_Witness ==
    /\ At(1, Log, "l_err")
    /\ mutex[1] = NoTask
    /\ ~hasClosed[1]

(***************************************************************************)
(* Properties of the pipelines under transient errors                      *)
(***************************************************************************)
Pipelines == { Track } \cup { Sub(k) : k \in SockIds }

\* a pipeline goroutine has left its loop
Leaving(s, t) == pc[s][t] \in { "close_lock", "done" }

RECURSIVE Without(_, _)
Without(seq, r) ==
    IF seq = << >> THEN << >>
    ELSE IF Head(seq) = r THEN Without(Tail(seq), r)
    ELSE << Head(seq) >> \o Without(Tail(seq), r)

\* C17: the step that sets the closed flag closes, in this order, the quit
\* channel, the peer connection if there is one, the session's own sub
\* socket if there is one, and the signaling connection; before it nothing
\* of the session is closed.  (The shared publish socket is left out of the
\* comparison here.)
C17_TeardownOrder ==
    [][\A s \in Sessions :
          (~hasClosed[s] /\ hasClosed'[s])
             => /\ closeLog[s] = << >>
                /\ Without(closeLog'[s], "pub")
                     = << "quit" >>
                       \o (IF rtcPeer[s] THEN << "rtc" >> ELSE << >>)
                       \o (IF spSock[s] \in SockIds THEN << "sub" >> ELSE << >>)
                       \o << "ws" >>]_vars

\* a session with a peer connection and no bus socket has been torn down
C17_Witness ==
    /\ hasClosed[1]
    /\ rtcPeer[1]
    /\ spSock[1] = nilSock
    /\ channelName[1] = << >>
    /\ closeLog[1] = << "quit", "rtc", "ws" >>

(***************************************************************************)
(* Properties of the topic                                                 *)
(***************************************************************************)
\* C18: whenever the bus socket of a session is set, spTopic is the four
\* little-endian bytes of hash(channelName), so that a frame built then
\* carries the topic of the session's channel.
C18_TopicOfChannel ==
    \A s \in Sessions :
        spSock[s] /= nilSock => spTopic[s] = PutUint32(hash(channelName[s]))

\* the bus socket is set and the track goroutine is about to build a frame
C18_Witness ==
    /\ spSock[1] /= nilSock
    /\ At(1, Track, "t_send")

(***************************************************************************)
(* Properties of the locking                                               *)
(***************************************************************************)
\* a step writes one of the guarded fields of session s
WritesField(s) ==
    \/ channelName'[s] /= channelName[s]
    \/ spTopic'[s] /= spTopic[s]
    \/ spSock'[s] /= spSock[s]
    \/ hasClosed'[s] /= hasClosed[s]

\* a step of a subscriber goroutine of session s reads c.spSock for Recv
ReadsSock(s) ==
    \E k \in SockIds : /\ Owner(k) = s
                       /\ At(s, Sub(k), "s_top")
                       /\ pc'[s][Sub(k)] = "s_recv"

\* C19: channelName, spTopic, spSock and hasClosed are read and written
\* under the session mutex: no step reads or writes one of them while
\* another task holds the mutex.
C19_MutexDiscipline ==
    [][\A s \in Sessions :
          (WritesField(s) \/ ReadsSock(s)) => mutex[s] = NoTask]_vars

\* the track goroutine holds the mutex while the session has a subscriber
\* goroutine
C19_Witness ==
    /\ mutex[1] = Track
    /\ \E k \in SockIds : Owner(k) = 1 /\ pc[1][Sub(k)] /= "none"

====
